---- MODULE Spec2Model ----
(***************************************************************************)
(* nowcasting_metrics: the MAE metrics of src/nowcasting_metrics/metrics/  *)
(* mae.py and the persistence helper of src/nowcasting_metrics/utils.py.   *)
(*                                                                         *)
(* The database is modelled as its tables: sets of rows for the data the   *)
(* program only reads (gsp_yield, forecast_value_latest, forecast_value),  *)
(* sequences of rows (a row's id is its index) for the tables it writes    *)
(* (metric, datetime_interval, metric_value), and the set of gsp ids that  *)
(* have a location row.  SQL numbers are exact rationals with the two      *)
(* special values NaN and NULL, with PostgreSQL's float semantics.         *)
(***************************************************************************)
EXTENDS Integers, Sequences, FiniteSets, TLC

(***************************************************************************)
(* Bounds of the model.                                                    *)
(***************************************************************************)
MaxGsp == 1            \* n_gsps ranges over 0..MaxGsp, gsp ids over 0..MaxGsp
MaxHorizonSteps == 1   \* max_forecast_horizon_minutes <= 30 * MaxHorizonSteps
MaxRuns == 2           \* calls of make_mae
MaxChecks == 2         \* calls of check_metrics_in_database

(***************************************************************************)
(* Program constants.                                                      *)
(***************************************************************************)
HorizonStep == 30      \* range(0, max_forecast_horizon_minutes, 30)
KwPerMw == 1000        \* solar_generation_kw / 1000

GspIds == 0..MaxGsp
Regimes == {"in-day", "day-after"}
\* Timestamps: 1 and 2 are dt1 and dt2 of the fixtures, 0 is a time before
\* them, 3 and 4 are times after them.
Times == 0..4

latest_mae == "Daily Latest MAE"
mae_all_gsps == "Daily Latest MAE All GSPs"
pvlive_mae == "PVLive MAE"
MetricNames == {latest_mae, mae_all_gsps, pvlive_mae}

\* Python's None, where a gsp id or a number of minutes may stand.
None == -1

(***************************************************************************)
(* SQL numbers.                                                            *)
(***************************************************************************)
RECURSIVE Gcd(_, _)
Gcd(a, b) == IF b = 0 THEN a ELSE Gcd(b, a % b)

\* The rational n / d (d > 0), in lowest terms.
Rat(n, d) ==
    LET g == Gcd(IF n < 0 THEN -n ELSE n, d)
    IN  [kind |-> "num", num |-> n \div g, den |-> d \div g]
Num(n) == Rat(n, 1)
NaN == [kind |-> "nan", num |-> 0, den |-> 1]
NULL == [kind |-> "null", num |-> 0, den |-> 1]

IsNum(x) == x.kind = "num"
IsNull(x) == x.kind = "null"
IsNaN(x) == x.kind = "nan"

\* a + b, a - b: NULL if an operand is NULL, else NaN if one is NaN.
Add(a, b) ==
    IF IsNull(a) \/ IsNull(b) THEN NULL
    ELSE IF IsNaN(a) \/ IsNaN(b) THEN NaN
    ELSE Rat(a.num * b.den + b.num * a.den, a.den * b.den)

Sub(a, b) ==
    IF IsNull(a) \/ IsNull(b) THEN NULL
    ELSE IF IsNaN(a) \/ IsNaN(b) THEN NaN
    ELSE Rat(a.num * b.den - b.num * a.den, a.den * b.den)

\* a / k for an integer k > 0.
DivBy(a, k) == IF IsNum(a) THEN Rat(a.num, a.den * k) ELSE a

\* a > b as a filter condition: a NULL operand filters the row out; NaN is
\* equal to NaN and greater than every number.
Gt(a, b) ==
    IF IsNull(a) \/ IsNull(b) THEN FALSE
    ELSE IF IsNaN(a) THEN ~IsNaN(b)
    ELSE IF IsNaN(b) THEN FALSE
    ELSE a.num * b.den > b.num * a.den

func_abs(a) == IF IsNum(a) /\ a.num < 0 THEN Rat(-a.num, a.den) ELSE a

RECURSIVE SumOf(_)
\* The sum of the values of a function from rows to SQL numbers.
SumOf(f) ==
    IF DOMAIN f = {} THEN Num(0)
    ELSE LET r == CHOOSE x \in DOMAIN f : TRUE
         IN  Add(f[r], SumOf([x \in DOMAIN f \ {r} |-> f[x]]))

\* count(expr): the rows whose expr is not NULL.
func_count(f) == Cardinality({r \in DOMAIN f : ~IsNull(f[r])})

\* avg(expr): over the rows whose expr is not NULL; NULL when there is none.
func_avg(f) ==
    LET nn == {r \in DOMAIN f : ~IsNull(f[r])}
    IN  IF nn = {} THEN NULL
        ELSE DivBy(SumOf([r \in nn |-> f[r]]), Cardinality(nn))

(***************************************************************************)
(* The data the program reads.  A site's rows are drawn from a small set   *)
(* of profiles; the tables are the union of the sites' rows.               *)
(***************************************************************************)
LatestRow(g, t, mw) ==
    [gsp_id |-> g, target_time |-> t, expected_power_generation_megawatts |-> mw]
YieldRow(g, t, r, kw) ==
    [gsp_id |-> g, datetime_utc |-> t, regime |-> r, solar_generation_kw |-> kw]
\* A forecast value with its forecast horizon, target_time - created_utc, in minutes.
ForecastRow(g, t, h, mw) ==
    [gsp_id |-> g, target_time |-> t, horizon |-> h,
     expected_power_generation_megawatts |-> mw]

\* The fixtures forecast_values_latest, forecast_values and gsp_yields, and
\* in-day estimates beside the day-after ones.
FixtureProfile(g) ==
    [latest |-> {LatestRow(g, 1, Num(1)), LatestRow(g, 2, Num(4))},
     yields |-> {YieldRow(g, 1, "day-after", Num(1000)),
                 YieldRow(g, 2, "day-after", Num(1000)),
                 YieldRow(g, 1, "in-day", Num(1000)),
                 YieldRow(g, 2, "in-day", Num(2500))},
     values |-> {ForecastRow(g, 1, 15, Rat(5, 4)), ForecastRow(g, 1, 45, Rat(7, 4)),
                 ForecastRow(g, 2, 15, Rat(17, 4)), ForecastRow(g, 2, 45, Rat(19, 4))}]

\* Forecasts, and no observation.
NoYieldProfile(g) ==
    [latest |-> {LatestRow(g, 1, Num(1)), LatestRow(g, 2, Num(4))},
     yields |-> {},
     values |-> {ForecastRow(g, 1, 15, Rat(5, 4))}]

\* A ragged site: at 0 a matched pair before the interval, at 1 a day-after
\* observation that is NaN, at 2 a matched pair, at 3 a forecast and an in-day
\* estimate with no day-after observation, at 4 a day-after observation with
\* no forecast and no in-day estimate.
RaggedProfile(g) ==
    [latest |-> {LatestRow(g, 0, Num(1)), LatestRow(g, 1, Num(1)),
                 LatestRow(g, 2, Num(4)), LatestRow(g, 3, Num(4))},
     yields |-> {YieldRow(g, 0, "day-after", Num(3000)),
                 YieldRow(g, 0, "in-day", Num(1000)),
                 YieldRow(g, 1, "day-after", NaN),
                 YieldRow(g, 1, "in-day", Num(1000)),
                 YieldRow(g, 2, "day-after", Num(1000)),
                 YieldRow(g, 2, "in-day", Num(2500)),
                 YieldRow(g, 3, "in-day", Num(1000)),
                 YieldRow(g, 4, "day-after", Num(3000))},
     values |-> {ForecastRow(g, 0, 15, Num(2)), ForecastRow(g, 1, 15, Rat(5, 4)),
                 ForecastRow(g, 2, 45, Rat(19, 4))}]

Profiles(g) ==
    {FixtureProfile(g), NoYieldProfile(g), RaggedProfile(g)}

Interval(s, e) == [start_datetime_utc |-> s, end_datetime_utc |-> e]
\* An interval that holds dt1 and dt2, and one that ends before it starts.
Intervals == {Interval(1, 4), Interval(2, 1)}

\* max_forecast_horizon_minutes: a negative value, 0, and multiples of the step.
HorizonLimits == {-HorizonStep} \cup {HorizonStep * k : k \in 0..MaxHorizonSteps}

VARIABLES
    gsp_yield,               \* table gsp_yield (GSPYieldSQL joined to its location)
    forecast_value_latest,   \* table forecast_value_latest
    forecast_value,          \* table forecast_value (joined to its forecast's location)
    location,                \* gsp ids with a location row
    metric_sql,              \* table metric: row i holds a name
    datetime_interval_sql,   \* table datetime_interval: row i holds an interval
    metric_value_sql,        \* table metric_value, in insertion order
    pc,                      \* where make_mae is
    datetime_interval,       \* make_mae's arguments: the interval of this call,
    n_gsps,                  \* and the two the caller's configuration sets
    max_forecast_horizon_minutes,
    gps_id,                  \* the loop variables of make_mae
    forecast_horizon_minutes,
    call,                    \* the partition function called last and its locals
    first_new,               \* rows of metric_value that existed when make_mae was called
    runs,                    \* calls of make_mae so far
    checks                   \* calls of check_metrics_in_database so far

data == <<gsp_yield, forecast_value_latest, forecast_value>>
tables == <<metric_sql, datetime_interval_sql, metric_value_sql>>
args == <<datetime_interval, n_gsps, max_forecast_horizon_minutes>>
vars == <<gsp_yield, forecast_value_latest, forecast_value, location, metric_sql,
          datetime_interval_sql, metric_value_sql, pc, datetime_interval, n_gsps,
          max_forecast_horizon_minutes, gps_id, forecast_horizon_minutes, call,
          first_new, runs, checks>>

NoCall ==
    [fn |-> "none", gsp_id |-> None, forecast_horizon_minutes |-> None,
     value |-> NULL, number_of_data_points |-> 0, returned |-> FALSE]

Init ==
    /\ \E p \in [GspIds -> UNION {Profiles(g) : g \in GspIds}] :
          /\ \A g \in GspIds : p[g] \in Profiles(g)
          /\ gsp_yield = UNION {p[g].yields : g \in GspIds}
          /\ forecast_value_latest = UNION {p[g].latest : g \in GspIds}
          /\ forecast_value = UNION {p[g].values : g \in GspIds}
          \* the fixtures resolve a site's location before they add its rows
          /\ location = {g \in GspIds : p[g].yields # {} \/ p[g].values # {}}
    /\ metric_sql = <<>>
    /\ datetime_interval_sql = <<>>
    /\ metric_value_sql = <<>>
    /\ pc = "idle"
    /\ datetime_interval = Interval(1, 4)
    /\ n_gsps \in 0..MaxGsp
    /\ max_forecast_horizon_minutes \in HorizonLimits
    /\ gps_id = 0
    /\ forecast_horizon_minutes = 0
    /\ call = NoCall
    /\ first_new = 0
    /\ runs = 0
    /\ checks = 0

(***************************************************************************)
(* The queries.  A joined row is a pair <<forecast row, yield row>> (for   *)
(* PVLive: <<day-after row, in-day row>>).                                 *)
(***************************************************************************)
InInterval(t, interval) ==
    interval.start_datetime_utc <= t /\ t <= interval.end_datetime_utc

\* make_mae_query differencing MW and kW as they are stored.
make_mae_query_unconverted(rows) ==
    [value |-> func_avg([r \in rows |->
                  func_abs(Sub(r[1].expected_power_generation_megawatts,
                               r[2].solar_generation_kw))]),
     number_of_data_points |->
         func_count([r \in rows |-> r[1].expected_power_generation_megawatts])]

\* select avg(abs(model.expected_power_generation_megawatts
\*                - GSPYieldSQL.solar_generation_kw / 1000)),
\*        count(model.expected_power_generation_megawatts)
make_mae_query(rows) ==
    [value |-> func_avg([r \in rows |->
                  func_abs(Sub(r[1].expected_power_generation_megawatts,
                               DivBy(r[2].solar_generation_kw, KwPerMw)))]),
     number_of_data_points |->
         func_count([r \in rows |-> r[1].expected_power_generation_megawatts])]

\* The yield at the forecast's target time, both inside the interval (inclusive).
filter_query_on_datetime_interval(interval, rows) ==
    {r \in rows : /\ r[2].datetime_utc = r[1].target_time
                  /\ InInterval(r[1].target_time, interval)
                  /\ InInterval(r[2].datetime_utc, interval)}

\* make_mae_one_gsp without its filter on the regime.
OneGspRowsOfAnyRegime(interval, gsp) ==
    filter_query_on_datetime_interval(interval,
        {r \in forecast_value_latest \X gsp_yield :
            /\ r[2].gsp_id \in location
            /\ r[2].gsp_id = gsp
            /\ r[1].gsp_id = gsp})

\* The filters and joins of make_mae_one_gsp.
OneGspRows(interval, gsp) ==
    {r \in filter_query_on_datetime_interval(interval,
               {r \in forecast_value_latest \X gsp_yield :
                    /\ r[2].gsp_id \in location
                    /\ r[2].gsp_id = gsp
                    /\ r[1].gsp_id = gsp}) :
        r[2].regime = "day-after"}

\* The filters and joins of make_mae_all_gsp.
AllGspRows(interval) ==
    {r \in filter_query_on_datetime_interval(interval,
               {r \in forecast_value_latest \X gsp_yield :
                    /\ r[2].gsp_id \in location
                    /\ r[2].gsp_id # 0
                    /\ r[1].gsp_id # 0
                    /\ r[1].gsp_id = r[2].gsp_id
                    \* only include non nan values
                    /\ Gt(Add(r[2].solar_generation_kw, Num(1)),
                          r[2].solar_generation_kw)}) :
        r[2].regime = "day-after"}

\* The ground-truth view: the day-after yields of a site inside the interval.
make_gsp_sub_query(interval, gsp) ==
    {y \in gsp_yield : /\ y.gsp_id = gsp
                       /\ y.regime = "day-after"
                       /\ InInterval(y.datetime_utc, interval)}

\* The forecast-horizon view: for each target time inside the interval, the
\* forecast of the site whose horizon falls in the bucket [h, h + step) and is
\* nearest to h.
make_forecast_sub_query(interval, h, gsp) ==
    LET InBucket(f) == /\ f.gsp_id = gsp
                       /\ InInterval(f.target_time, interval)
                       /\ h <= f.horizon
                       /\ f.horizon < h + HorizonStep
    IN  {f \in forecast_value :
            /\ InBucket(f)
            /\ \A f2 \in forecast_value :
                  (InBucket(f2) /\ f2.target_time = f.target_time)
                      => f.horizon <= f2.horizon}

\* The filters of make_mae_one_gsp_with_forecast_horizon.
HorizonRows(interval, gsp, h) ==
    {r \in (forecast_value \cap make_forecast_sub_query(interval, h, gsp))
             \X (gsp_yield \cap make_gsp_sub_query(interval, gsp)) :
        r[2].datetime_utc = r[1].target_time}

\* One revision of a site's yields inside the interval.
make_pvlive_subquery(interval, gsp, regime) ==
    {y \in gsp_yield : /\ y.gsp_id = gsp
                       /\ y.regime = regime
                       /\ InInterval(y.datetime_utc, interval)}

\* The join of make_pvlive_mae.
PvliveRows(interval, gsp) ==
    {r \in make_pvlive_subquery(interval, gsp, "day-after")
             \X make_pvlive_subquery(interval, gsp, "in-day") :
        r[1].datetime_utc = r[2].datetime_utc}

\* select avg(abs(day_after.solar_generation_kw / 1000
\*                - in_day.solar_generation_kw / 1000)),
\*        count(day_after.datetime_utc)
PvliveQuery(rows) ==
    [value |-> func_avg([r \in rows |->
                  func_abs(Sub(DivBy(r[1].solar_generation_kw, KwPerMw),
                               DivBy(r[2].solar_generation_kw, KwPerMw)))]),
     number_of_data_points |-> func_count([r \in rows |-> Num(r[1].datetime_utc)])]

(***************************************************************************)
(* Persistence.                                                            *)
(***************************************************************************)
IndexOf(table, x) == CHOOSE i \in 1..Len(table) :
                        /\ table[i] = x
                        /\ \A j \in 1..(i - 1) : table[j] # x
Holds(table, x) == \E i \in 1..Len(table) : table[i] = x

\* get_metric: the table after the lookup, which adds the row when it is missing.
get_metric(table, name) == IF Holds(table, name) THEN table ELSE Append(table, name)

\* get_datetime_interval: the same for an interval's bounds.
get_datetime_interval(table, interval) ==
    IF Holds(table, interval) THEN table ELSE Append(table, interval)

\* get_location: the location rows after the lookup.
get_location(gsp) == location \cup {gsp}

\* The parameters of save_metric_value_to_database.
SaveParameters ==
    {"session", "value", "number_of_data_points", "metric", "datetime_interval",
     "location"}

\* The keyword arguments of the call in make_mae_one_gsp_with_forecast_horizon.
HorizonSaveKeywords ==
    {"session", "value", "number_of_data_points", "datetime_interval", "metric",
     "location", "forecast_horizon_minutes"}

\* save_metric_value_to_database inserting an interval row of its own.
save_with_new_interval(value, number_of_data_points, name, interval, loc) ==
    LET metrics == get_metric(metric_sql, name)
        intervals == Append(datetime_interval_sql, interval)
    IN  /\ metric_sql' = metrics
        /\ datetime_interval_sql' = intervals
        /\ metric_value_sql' = Append(metric_value_sql,
              [value |-> value,
               number_of_data_points |-> number_of_data_points,
               metric |-> IndexOf(metrics, name),
               datetime_interval |-> Len(intervals),
               location |-> loc,
               forecast_horizon_minutes |-> None])

\* save_metric_value_to_database updating the record of the same metric,
\* interval and site when there is one.
save_or_update(value, number_of_data_points, name, interval, loc) ==
    LET metrics == get_metric(metric_sql, name)
        intervals == get_datetime_interval(datetime_interval_sql, interval)
        new == [value |-> value,
                number_of_data_points |-> number_of_data_points,
                metric |-> IndexOf(metrics, name),
                datetime_interval |-> IndexOf(intervals, interval),
                location |-> loc,
                forecast_horizon_minutes |-> None]
        Same(i) == /\ metric_value_sql[i].metric = new.metric
                   /\ metric_value_sql[i].datetime_interval = new.datetime_interval
                   /\ metric_value_sql[i].location = new.location
    IN  /\ metric_sql' = metrics
        /\ datetime_interval_sql' = intervals
        /\ metric_value_sql' =
              IF \E i \in 1..Len(metric_value_sql) : Same(i)
              THEN [i \in 1..Len(metric_value_sql) |->
                       IF Same(i) THEN new ELSE metric_value_sql[i]]
              ELSE Append(metric_value_sql, new)

save_metric_value_to_database(value, number_of_data_points, name, interval, loc) ==
    LET metrics == get_metric(metric_sql, name)
        intervals == get_datetime_interval(datetime_interval_sql, interval)
    IN  /\ metric_sql' = metrics
        /\ datetime_interval_sql' = intervals
        /\ metric_value_sql' = Append(metric_value_sql,
              [value |-> value,
               number_of_data_points |-> number_of_data_points,
               metric |-> IndexOf(metrics, name),
               datetime_interval |-> IndexOf(intervals, interval),
               location |-> loc,
               forecast_horizon_minutes |-> None])

\* A call binds its keywords to the parameters, or raises TypeError.
Accepts(keywords) == keywords \subseteq SaveParameters

Called(fn, gsp, h, result, returned) ==
    [fn |-> fn, gsp_id |-> gsp, forecast_horizon_minutes |-> h,
     value |-> result.value,
     number_of_data_points |-> result.number_of_data_points,
     returned |-> returned]

(***************************************************************************)
(* make_mae, one action per partition function it calls.                   *)
(***************************************************************************)
\* make_mae is called, with its arguments.
MakeMae(interval) ==
    /\ pc \in {"idle", "done", "failed"}
    /\ runs < MaxRuns
    /\ runs' = runs + 1
    /\ datetime_interval' = interval
    /\ first_new' = Len(metric_value_sql)
    /\ call' = NoCall
    /\ gps_id' = 0
    /\ pc' = "one_gsp"
    /\ UNCHANGED <<data, location, tables, n_gsps, max_forecast_horizon_minutes,
                   forecast_horizon_minutes, checks>>

\* Where make_mae goes after make_mae_all_gsp and after the horizon loop.
AfterAllGsp ==
    IF 0 < max_forecast_horizon_minutes
    THEN /\ pc' = "horizon"
         /\ forecast_horizon_minutes' = 0
         /\ UNCHANGED gps_id
    ELSE /\ pc' = "pvlive"
         /\ gps_id' = 0
         /\ UNCHANGED forecast_horizon_minutes

make_mae_one_gsp ==
    /\ pc = "one_gsp"
    /\ LET result == make_mae_query(OneGspRows(datetime_interval, gps_id))
       IN  /\ location' = get_location(gps_id)
           /\ save_metric_value_to_database(result.value,
                  result.number_of_data_points, latest_mae, datetime_interval, gps_id)
           /\ call' = Called("make_mae_one_gsp", gps_id, None, result, TRUE)
    /\ IF gps_id < n_gsps
       THEN gps_id' = gps_id + 1 /\ pc' = "one_gsp"
       ELSE gps_id' = gps_id /\ pc' = "all_gsp"
    /\ UNCHANGED <<data, args, forecast_horizon_minutes, first_new, runs, checks>>

make_mae_all_gsp ==
    /\ pc = "all_gsp"
    /\ LET result == make_mae_query(AllGspRows(datetime_interval))
       IN  /\ save_metric_value_to_database(result.value,
                  result.number_of_data_points, mae_all_gsps, datetime_interval, None)
           /\ call' = Called("make_mae_all_gsp", None, None, result, TRUE)
    /\ AfterAllGsp
    /\ UNCHANGED <<data, location, args, first_new, runs, checks>>

make_mae_one_gsp_with_forecast_horizon ==
    /\ pc = "horizon"
    /\ LET result == make_mae_query(
                        HorizonRows(datetime_interval, 0, forecast_horizon_minutes))
       IN  \* the arguments, get_location among them, are evaluated before the call
           /\ location' = get_location(0)
           /\ IF Accepts(HorizonSaveKeywords)
              THEN /\ save_metric_value_to_database(result.value,
                          result.number_of_data_points, latest_mae,
                          datetime_interval, 0)
                   /\ call' = Called("make_mae_one_gsp_with_forecast_horizon", 0,
                                     forecast_horizon_minutes, result, TRUE)
                   /\ IF forecast_horizon_minutes + HorizonStep
                            < max_forecast_horizon_minutes
                      THEN /\ forecast_horizon_minutes' =
                                  forecast_horizon_minutes + HorizonStep
                           /\ pc' = "horizon"
                           /\ UNCHANGED gps_id
                      ELSE /\ pc' = "pvlive"
                           /\ gps_id' = 0
                           /\ UNCHANGED forecast_horizon_minutes
              ELSE \* TypeError: it leaves make_mae
                   /\ call' = Called("make_mae_one_gsp_with_forecast_horizon", 0,
                                     forecast_horizon_minutes, result, FALSE)
                   /\ pc' = "failed"
                   /\ UNCHANGED <<tables, gps_id, forecast_horizon_minutes>>
    /\ UNCHANGED <<data, args, first_new, runs, checks>>

make_pvlive_mae ==
    /\ pc = "pvlive"
    /\ LET result == PvliveQuery(PvliveRows(datetime_interval, gps_id))
       IN  /\ location' = get_location(gps_id)
           /\ save_metric_value_to_database(result.value,
                  result.number_of_data_points, pvlive_mae, datetime_interval, gps_id)
           /\ call' = Called("make_pvlive_mae", gps_id, None, result, TRUE)
    /\ IF gps_id < n_gsps
       THEN gps_id' = gps_id + 1 /\ pc' = "pvlive"
       ELSE gps_id' = gps_id /\ pc' = "done"
    /\ UNCHANGED <<data, args, forecast_horizon_minutes, first_new, runs, checks>>

RECURSIVE GetMetrics(_, _)
\* get_metric for each name of a set, in turn.
GetMetrics(table, names) ==
    IF names = {} THEN table
    ELSE LET n == CHOOSE x \in names : TRUE
         IN  GetMetrics(get_metric(table, n), names \ {n})

\* check_metrics_in_database: every metric of the catalog is looked up, and
\* created when it is missing.
check_metrics_in_database ==
    /\ pc \in {"idle", "done", "failed"}
    /\ checks < MaxChecks
    /\ checks' = checks + 1
    /\ metric_sql' = GetMetrics(metric_sql, MetricNames)
    /\ UNCHANGED <<data, location, datetime_interval_sql, metric_value_sql, pc, args,
                   gps_id, forecast_horizon_minutes, call, first_new, runs>>

Next ==
    \/ \E interval \in Intervals : MakeMae(interval)
    \/ make_mae_one_gsp
    \/ make_mae_all_gsp
    \/ make_mae_one_gsp_with_forecast_horizon
    \/ make_pvlive_mae
    \/ check_metrics_in_database

Spec == Init /\ [][Next]_vars

(***************************************************************************)
(* What the properties below speak of.                                     *)
(***************************************************************************)
\* The rows of metric_value the current (or last) call of make_mae has added.
ThisRun == (first_new + 1)..Len(metric_value_sql)
MetricOf(row) == metric_sql[row.metric]
IntervalOf(row) == datetime_interval_sql[row.datetime_interval]
\* make_mae has returned, or an exception has left it.
Ended == pc \in {"done", "failed"}
\* The horizons make_mae loops over: 0, 30, 60, ... below the limit.
Horizons ==
    {h \in 0..(HorizonStep * (MaxHorizonSteps + 1)) :
        h % HorizonStep = 0 /\ h < max_forecast_horizon_minutes}
InvalidConfiguration ==
    \/ datetime_interval.start_datetime_utc >= datetime_interval.end_datetime_utc
    \/ max_forecast_horizon_minutes < 0
NoObservations ==
    \A y \in gsp_yield : ~InInterval(y.datetime_utc, datetime_interval)

\* The times inside the interval at which site g has a latest forecast and a
\* day-after observation.
MatchedTimes(g, interval) ==
    {t \in Times :
        /\ InInterval(t, interval)
        /\ \E f \in forecast_value_latest : f.gsp_id = g /\ f.target_time = t
        /\ \E y \in gsp_yield :
              y.gsp_id = g /\ y.datetime_utc = t /\ y.regime = "day-after"}
\* The times inside the interval at which site g has both revisions.
RevisedTimes(g, interval) ==
    {t \in Times :
        /\ InInterval(t, interval)
        /\ \A r \in Regimes : \E y \in gsp_yield :
              y.gsp_id = g /\ y.datetime_utc = t /\ y.regime = r}
ForecastAt(g, t) ==
    (CHOOSE f \in forecast_value_latest : f.gsp_id = g /\ f.target_time = t)
        .expected_power_generation_megawatts
DayAfterAt(g, t) ==
    (CHOOSE y \in gsp_yield :
        y.gsp_id = g /\ y.datetime_utc = t /\ y.regime = "day-after")
        .solar_generation_kw
\* v + 1 > v fails for the observation.
Invalid(g, t) == IsNaN(DayAfterAt(g, t))
ValidTimes(g, interval) == {t \in MatchedTimes(g, interval) : ~Invalid(g, t)}

RECURSIVE SumCard(_, _)
\* The number of valid matched pairs of the sites of a set.
SumCard(gs, interval) ==
    IF gs = {} THEN 0
    ELSE LET g == CHOOSE x \in gs : TRUE
         IN  Cardinality(ValidTimes(g, interval)) + SumCard(gs \ {g}, interval)

RECURSIVE SumKwError(_, _)
\* The sum over a set of times of |1000 * forecast MW - observation kW|, for
\* forecasts that are whole MW and observations that are whole kW.
SumKwError(g, ts) ==
    IF ts = {} THEN 0
    ELSE LET t == CHOOSE x \in ts : TRUE
             d == KwPerMw * ForecastAt(g, t).num - DayAfterAt(g, t).num
         IN  (IF d < 0 THEN -d ELSE d) + SumKwError(g, ts \ {t})

(***************************************************************************)
(* C1: a failure in one partition does not abort the run: when make_mae    *)
(* has ended, every partition other than the failed one has its record,    *)
(* the revision comparison of every site among them.                       *)
(***************************************************************************)
C1_FailureDoesNotAbort ==
    Ended =>
        /\ \A g \in 0..n_gsps : \E i \in ThisRun :
              /\ MetricOf(metric_value_sql[i]) = latest_mae
              /\ metric_value_sql[i].location = g
        /\ \E i \in ThisRun : MetricOf(metric_value_sql[i]) = mae_all_gsps
        /\ \A g \in 0..n_gsps : \E i \in ThisRun :
              /\ MetricOf(metric_value_sql[i]) = pvlive_mae
              /\ metric_value_sql[i].location = g

(***************************************************************************)
(* C2: for n_gsps N >= 0 and max_forecast_horizon_minutes H >= 0, one call *)
(* of make_mae persists (N + 1) + 1 + ceil(H / 30) + (N + 1) records.      *)
(***************************************************************************)
C2_RecordCount ==
    (Ended /\ max_forecast_horizon_minutes >= 0) =>
        Cardinality(ThisRun) =
            (n_gsps + 1) + 1
            + ((max_forecast_horizon_minutes + HorizonStep - 1) \div HorizonStep)
            + (n_gsps + 1)

(***************************************************************************)
(* C3: when the interval holds no observation, each partition function     *)
(* finishes without error with value NULL and 0 data points, and persists  *)
(* one record carrying them.                                               *)
(***************************************************************************)
C3_NoDataIsPersisted ==
    (call.fn # "none" /\ ~InvalidConfiguration /\ NoObservations) =>
        /\ call.returned
        /\ IsNull(call.value)
        /\ call.number_of_data_points = 0
        /\ ThisRun # {}
        /\ IsNull(metric_value_sql[Len(metric_value_sql)].value)
        /\ metric_value_sql[Len(metric_value_sql)].number_of_data_points = 0

(***************************************************************************)
(* C4: in every MAE over latest forecasts (per site, and over all GSPs) a  *)
(* joined row whose observation v fails v + 1 > v is missing data: it is   *)
(* not averaged and not counted.                                           *)
(***************************************************************************)
C4_InvalidRowsExcluded ==
    \A i \in 1..Len(metric_value_sql) :
        LET row == metric_value_sql[i]
        IN  /\ MetricOf(row) = latest_mae =>
                /\ ~IsNaN(row.value)
                /\ row.number_of_data_points =
                       Cardinality(ValidTimes(row.location, IntervalOf(row)))
            /\ MetricOf(row) = mae_all_gsps =>
                /\ ~IsNaN(row.value)
                /\ row.number_of_data_points =
                       SumCard(GspIds \ {0}, IntervalOf(row))

(***************************************************************************)
(* C5: number_of_data_points of every persisted record is the number of    *)
(* matched pairs that enter its average: the times at which the site has   *)
(* both a latest forecast and a day-after observation (both revisions, for *)
(* PVLive MAE) inside the interval; rows without a partner are not         *)
(* counted, and the value is NULL exactly when no pair is counted.         *)
(***************************************************************************)
C5_CountIsMatchedPairs ==
    \A i \in 1..Len(metric_value_sql) :
        LET row == metric_value_sql[i]
        IN  /\ MetricOf(row) = latest_mae =>
                row.number_of_data_points =
                    Cardinality(MatchedTimes(row.location, IntervalOf(row)))
            /\ MetricOf(row) = mae_all_gsps =>
                row.number_of_data_points = SumCard(GspIds \ {0}, IntervalOf(row))
            /\ MetricOf(row) = pvlive_mae =>
                row.number_of_data_points =
                    Cardinality(RevisedTimes(row.location, IntervalOf(row)))
            /\ IsNull(row.value) <=> row.number_of_data_points = 0

\* A record that counts one pair of a site which also has, inside the interval,
\* a forecast without an observation and an observation without a forecast.
C5_Witness ==
    \E i \in 1..Len(metric_value_sql) :
        LET row == metric_value_sql[i]
        IN  /\ MetricOf(row) = latest_mae
            /\ row.number_of_data_points > 0
            /\ \E f \in forecast_value_latest :
                  /\ f.gsp_id = row.location
                  /\ InInterval(f.target_time, IntervalOf(row))
                  /\ f.target_time \notin MatchedTimes(row.location, IntervalOf(row))
            /\ \E y \in gsp_yield :
                  /\ y.gsp_id = row.location
                  /\ y.regime = "day-after"
                  /\ InInterval(y.datetime_utc, IntervalOf(row))
                  /\ y.datetime_utc \notin MatchedTimes(row.location, IntervalOf(row))

(***************************************************************************)
(* C6: when make_mae has ended, each horizon 0, 30, ... below              *)
(* max_forecast_horizon_minutes has a record of this run with that         *)
(* horizon attached and no site.                                           *)
(***************************************************************************)
C6_HorizonRecords ==
    Ended =>
        \A h \in Horizons : \E i \in ThisRun :
            /\ metric_value_sql[i].forecast_horizon_minutes = h
            /\ metric_value_sql[i].location = None

(***************************************************************************)
(* C7: with an interval whose start is at or after its end, or a negative  *)
(* max_forecast_horizon_minutes, make_mae issues no query and persists no  *)
(* record.                                                                 *)
(***************************************************************************)
C7_InvalidConfigurationRejected ==
    (runs > 0 /\ InvalidConfiguration) => (call.fn = "none" /\ ThisRun = {})

(***************************************************************************)
(* C8: the store holds at most one metric row per name and at most one     *)
(* interval row per (start, end); every record refers to the one row of    *)
(* its metric and interval; once check_metrics_in_database has run, the    *)
(* metric table holds one row per metric of the catalog, however often it  *)
(* runs again.                                                             *)
(***************************************************************************)
C8_GetOrCreateIsIdempotent ==
    /\ \A i, j \in 1..Len(metric_sql) : metric_sql[i] = metric_sql[j] => i = j
    /\ \A i, j \in 1..Len(datetime_interval_sql) :
          datetime_interval_sql[i] = datetime_interval_sql[j] => i = j
    /\ \A i \in 1..Len(metric_value_sql) :
          /\ metric_value_sql[i].metric \in 1..Len(metric_sql)
          /\ metric_value_sql[i].datetime_interval \in 1..Len(datetime_interval_sql)
    /\ \A i \in ThisRun : IntervalOf(metric_value_sql[i]) = datetime_interval
    /\ checks >= 1 => Len(metric_sql) = Cardinality(MetricNames)

\* check_metrics_in_database has run twice, and two runs over the same interval
\* have stored records that share the one row of that interval.
C8_Witness ==
    /\ checks >= 2
    /\ Len(datetime_interval_sql) = 1
    /\ \E i \in 1..first_new : \E j \in ThisRun :
          /\ metric_value_sql[i].datetime_interval = metric_value_sql[j].datetime_interval
          /\ metric_value_sql[i].metric = metric_value_sql[j].metric

C10_MaeConvertsKwToMw ==
    \A i \in 1..Len(metric_value_sql) :
        LET row == metric_value_sql[i]
            ts == MatchedTimes(row.location, IntervalOf(row))
        IN  MetricOf(row) = latest_mae =>
                /\ (ts # {} /\ ValidTimes(row.location, IntervalOf(row)) = ts) =>
                      /\ IsNum(row.value)
                      /\ row.value.num * KwPerMw * Cardinality(ts)
                             = row.value.den * SumKwError(row.location, ts)
                /\ (/\ FixtureProfile(row.location).yields \subseteq gsp_yield
                    /\ IntervalOf(row) = Interval(1, 4)) =>
                      /\ row.value = [kind |-> "num", num |-> 3, den |-> 2]
                      /\ row.number_of_data_points = 2

\* The record of a site with the fixture's rows: MAE 3/2 from 2 pairs.
C10_Witness ==
    \E i \in 1..Len(metric_value_sql) :
        LET row == metric_value_sql[i]
        IN  /\ MetricOf(row) = latest_mae
            /\ FixtureProfile(row.location).yields \subseteq gsp_yield
            /\ IntervalOf(row) = Interval(1, 4)
            /\ row.value = [kind |-> "num", num |-> 3, den |-> 2]
            /\ row.number_of_data_points = 2

====
